---- MODULE Spec2Model ----
(***************************************************************************)
(* Model of the two camera pipelines (FacialExpression.run and             *)
(* _5Fingers.run_camera_loop) and of the SerialClient class they share.    *)
(*                                                                         *)
(* Python values are encoded as follows.                                   *)
(*   - a str is a sequence of one-character strings;                       *)
(*   - an Optional value is <<>> (None) or <<v>> (the value v);            *)
(*   - the ratios of SmileDetector are integers in units of 1/1000;        *)
(*   - a serial.Serial object is the index of its record in conns.         *)
(***************************************************************************)
EXTENDS Integers, Sequences, FiniteSets, TLC

VARIABLES
    pipeline,       \* "expr" (FacialExpression.py) or "gest" (_5Fingers.py)
    mode,           \* "session" (run / run_camera_loop) or "api" (SerialClient used directly)
    port,           \* the port argument: Optional[str]
    noserial,       \* the --noserial flag
    pyserial,       \* whether "import serial" succeeded (serial is not None)
    smooth,         \* the --smooth argument
    retriesArg,     \* the retries argument of SerialClient.__init__
    host,           \* serial.tools.list_ports.comports(): the host's devices, in order
    hand_counter,   \* HandCounter: [assume_right_hand, flipped]
    pc,             \* position of the caller: "start", "loop", "done"
    serial_client,  \* Optional[SerialClient]: <<>> or <<[port, retries, _ser, _available]>>
    prev,           \* prev_label / prev_sent: Optional
    mouth_buf,      \* SmileDetector.mouth_buf
    corner_buf,     \* SmileDetector.corner_buf
    buffer,         \* the deque of run_camera_loop
    conns,          \* every serial.Serial object created: [dev, open, closes]
    writes,         \* every Serial.write call: [conn, val, ok]
    attempts,       \* every serial.Serial(...) call of the last open(): [dev, attempt, ok]
    sendCalls,      \* number of send_signal / send_count calls so far
    failed,         \* a write has raised
    steps,          \* frames processed / api calls made
    last,           \* what the last step did
    closeCalls,     \* number of SerialClient.close calls so far
    fn,             \* the function applied by the last step of a function specification
    out,            \* what it returned
    hist,           \* every value appended to each smoothing buffer so far
    twin            \* a second SmileDetector: [mouth_buf, corner_buf, label]

vars == <<pipeline, mode, port, noserial, pyserial, smooth, retriesArg, host,
          hand_counter, pc,
          serial_client, prev, mouth_buf, corner_buf, buffer, conns, writes,
          attempts, sendCalls, failed, steps, last, closeCalls, fn, out, hist, twin>>

config == <<pipeline, mode, port, noserial, pyserial, smooth, retriesArg, host,
            hand_counter>>

\* The variables that only the function specifications change
fnvars == <<fn, out, hist, twin>>

----------------------------------------------------------------------------
(* Bounds of the model *)

MaxFrames == 3
MaxOps == 3
MaxSmooth == 2
MaxRetries == 3
MaxWindow == 3
MaxPush == 4

----------------------------------------------------------------------------
(* Python values *)

None == <<>>
Some(v) == <<v>>
IsNone(o) == o = <<>>
Val(o) == o[1]

Str_neutral == <<"n","e","u","t","r","a","l">>
Str_smile == <<"s","m","i","l","e">>
Str_frown == <<"f","r","o","w","n">>
Str_empty == <<>>

Upper == <<"A","B","C","D","E","F","G","H","I","J","K","L","M",
           "N","O","P","Q","R","S","T","U","V","W","X","Y","Z">>
Lower == <<"a","b","c","d","e","f","g","h","i","j","k","l","m",
           "n","o","p","q","r","s","t","u","v","w","x","y","z">>
Whitespace == {" ", "\t", "\n"}

LowerChar(ch) ==
    IF \E i \in 1..Len(Upper) : Upper[i] = ch
    THEN Lower[CHOOSE i \in 1..Len(Upper) : Upper[i] = ch]
    ELSE ch

\* str.lower()
StrLower(s) == [i \in 1..Len(s) |-> LowerChar(s[i])]

\* str.strip()
StrStrip(s) ==
    LET keep == {i \in 1..Len(s) : s[i] \notin Whitespace} IN
    IF keep = {} THEN <<>>
    ELSE LET lo == CHOOSE i \in keep : \A j \in keep : i <= j
             hi == CHOOSE i \in keep : \A j \in keep : j <= i
         IN  SubSeq(s, lo, hi)

\* sub in s, for two str
StrContains(s, sub) ==
    \E i \in 0..(Len(s) - Len(sub)) : SubSeq(s, i + 1, i + Len(sub)) = sub

\* truth value of an Optional[str]: None and '' are false
Truthy(o) == o # None /\ Val(o) # Str_empty

----------------------------------------------------------------------------
(* The host's serial devices *)

Dev_ACM0 == <<"t","t","y","A","C","M","0">>
Dev_USB0 == <<"t","t","y","U","S","B","0">>
Dev_S0 == <<"t","t","y","S","0">>

\* open(): ('ACM' in p.device or 'USB' in p.device)
IsUsbLike(d) == StrContains(d, <<"A","C","M">>) \/ StrContains(d, <<"U","S","B">>)

----------------------------------------------------------------------------
(* SerialClient.  A world W is [c, conns, writes, attempts]: the client     *)
(* object c and the part of the environment its methods act on.            *)

DefaultRetries == 3

NewClient(p, r) ==
    [port |-> p, retries |-> r, _ser |-> None, _available |-> FALSE]

\* open(): candidates = [self.port] if self.port else [p.device for p in comports() if ...]
Candidates(c, hostList) ==
    IF Truthy(c.port) THEN <<Val(c.port)>> ELSE SelectSeq(hostList, IsUsbLike)

\* Outcome of serial.Serial(dev, ...) on the given attempt: okAt[dev] = 0 when the
\* device never opens, k > 0 when it opens from the k-th attempt on.
OpenSucceeds(okAt, dev, a) == okAt[dev] # 0 /\ a >= okAt[dev]

Attempt(dev, a, ok) == [dev |-> dev, attempt |-> a, ok |-> ok]

\* A variant of OpenLoop that does not return after a successful open
RECURSIVE OpenLoopNoReturn(_, _, _, _, _)
OpenLoopNoReturn(W, cands, i, a, okAt) ==
    IF i > Len(cands) THEN W
    ELSE IF a > W.c.retries THEN OpenLoopNoReturn(W, cands, i + 1, 1, okAt)
    ELSE IF OpenSucceeds(okAt, cands[i], a)
    THEN OpenLoopNoReturn(
             [W EXCEPT !.c._ser = Some(Len(W.conns) + 1),
                       !.c._available = TRUE,
                       !.conns = Append(@, [dev |-> cands[i], open |-> TRUE, closes |-> 0]),
                       !.attempts = Append(@, Attempt(cands[i], a, TRUE))],
             cands, i, a + 1, okAt)
    ELSE OpenLoopNoReturn([W EXCEPT !.attempts = Append(@, Attempt(cands[i], a, FALSE))],
                          cands, i, a + 1, okAt)

\* A variant of OpenLoop that makes one attempt more per candidate
RECURSIVE OpenLoopExtraAttempt(_, _, _, _, _)
OpenLoopExtraAttempt(W, cands, i, a, okAt) ==
    IF i > Len(cands) THEN W
    ELSE IF a > W.c.retries + 1 THEN OpenLoopExtraAttempt(W, cands, i + 1, 1, okAt)
    ELSE IF OpenSucceeds(okAt, cands[i], a)
    THEN [W EXCEPT !.c._ser = Some(Len(W.conns) + 1),
                   !.c._available = TRUE,
                   !.conns = Append(@, [dev |-> cands[i], open |-> TRUE, closes |-> 0]),
                   !.attempts = Append(@, Attempt(cands[i], a, TRUE))]
    ELSE OpenLoopExtraAttempt([W EXCEPT !.attempts = Append(@, Attempt(cands[i], a, FALSE))],
                              cands, i, a + 1, okAt)

\* open(): the two nested loops, at candidate i and attempt a
RECURSIVE OpenLoop(_, _, _, _, _)
OpenLoop(W, cands, i, a, okAt) ==
    IF i > Len(cands) THEN W
    ELSE IF a > W.c.retries THEN OpenLoop(W, cands, i + 1, 1, okAt)
    ELSE IF OpenSucceeds(okAt, cands[i], a)
    THEN [W EXCEPT !.c._ser = Some(Len(W.conns) + 1),
                   !.c._available = TRUE,
                   !.conns = Append(@, [dev |-> cands[i], open |-> TRUE, closes |-> 0]),
                   !.attempts = Append(@, Attempt(cands[i], a, TRUE))]
    ELSE OpenLoop([W EXCEPT !.attempts = Append(@, Attempt(cands[i], a, FALSE))],
                  cands, i, a + 1, okAt)

\* SerialClient.open
SerialOpen(W, hostList, okAt) ==
    OpenLoop([W EXCEPT !.attempts = <<>>], Candidates(W.c, hostList), 1, 1, okAt)

\* SerialClient.__init__
SerialClientInit(W, p, r, havePyserial, hostList, okAt) ==
    LET W1 == [W EXCEPT !.c = NewClient(p, r)] IN
    IF Truthy(p) /\ havePyserial THEN SerialOpen(W1, hostList, okAt) ELSE W1

\* The devices an open() of client c may try: the domain of the okAt oracle
CandidateSet(c, hostList) ==
    LET cs == Candidates(c, hostList) IN {cs[i] : i \in 1..Len(cs)}

\* str(int)
Digits == <<"0","1","2","3","4","5","6","7","8","9">>
RECURSIVE NatToStr(_)
NatToStr(n) == IF n < 10 THEN <<Digits[n + 1]>>
               ELSE NatToStr(n \div 10) \o <<Digits[(n % 10) + 1]>>
IntToStr(n) == IF n < 0 THEN <<"-">> \o NatToStr(-n) ELSE NatToStr(n)

\* f"{val}\n"
Message(val) == IntToStr(val) \o <<"\n">>

\* self._ser.close() inside a try/except that swallows everything
CloseConn(cs, id) == [cs EXCEPT ![id].open = FALSE, ![id].closes = @ + 1]

\* A variant of WriteOrFail whose except branch leaves the channel as it was
WriteOrFailStaysOpen(W, msg, wok) ==
    LET id == Val(W.c._ser)
        W1 == [W EXCEPT !.writes = Append(@, [conn |-> id, msg |-> msg, ok |-> wok])]
    IN  [W |-> W1, ret |-> wok]

\* A variant of WriteOrFail whose except branch drops the handle without closing it
WriteOrFailNoClose(W, msg, wok) ==
    LET id == Val(W.c._ser)
        W1 == [W EXCEPT !.writes = Append(@, [conn |-> id, msg |-> msg, ok |-> wok])]
    IN  IF wok
        THEN [W |-> W1, ret |-> TRUE]
        ELSE [W |-> [W1 EXCEPT !.c._available = FALSE, !.c._ser = None], ret |-> FALSE]

\* The try/except around self._ser.write(msg): wok is whether write returns
WriteOrFail(W, msg, wok) ==
    LET id == Val(W.c._ser)
        W1 == [W EXCEPT !.writes = Append(@, [conn |-> id, msg |-> msg, ok |-> wok])]
    IN  IF wok
        THEN [W |-> W1, ret |-> TRUE]
        ELSE [W |-> [W1 EXCEPT !.conns = CloseConn(@, id),
                               !.c._available = FALSE,
                               !.c._ser = None],
              ret |-> FALSE]

\* send_signal: the guard on the channel state
NotOpen(c) == ~c._available \/ IsNone(c._ser)

\* A variant of Mapping with the codes of smile and frown exchanged
MappingSwapped == (Str_neutral :> 2) @@ (Str_smile :> 1) @@ (Str_frown :> 3)

\* send_signal: mapping
Mapping == (Str_neutral :> 2) @@ (Str_smile :> 3) @@ (Str_frown :> 1)

\* send_signal: key = (label or '').strip().lower()
Key(label) == StrLower(StrStrip(IF IsNone(label) THEN Str_empty ELSE Val(label)))

\* SerialClient.send_signal (FacialExpression.py)
SendSignal(W, label, wok) ==
    IF NotOpen(W.c) THEN [W |-> W, ret |-> FALSE]
    ELSE IF Key(label) \notin DOMAIN Mapping THEN [W |-> W, ret |-> FALSE]
    ELSE WriteOrFail(W, Message(Mapping[Key(label)]), wok)

\* A variant of SendCount that reports success on a channel that is not open
SendCountReportsSuccess(W, n, wok) ==
    IF NotOpen(W.c) THEN [W |-> W, ret |-> TRUE]
    ELSE WriteOrFail(W, Message(n), wok)

\* SerialClient.send_count (_5Fingers.py)
SendCount(W, n, wok) ==
    IF NotOpen(W.c) THEN [W |-> W, ret |-> FALSE]
    ELSE WriteOrFail(W, Message(n), wok)

\* A variant of SerialClose that keeps the handle of the closed connection
SerialCloseKeepsHandle(W) ==
    IF IsNone(W.c._ser) THEN W
    ELSE [W EXCEPT !.conns = CloseConn(@, Val(W.c._ser)),
                   !.c._available = FALSE]

\* SerialClient.close
SerialClose(W) ==
    IF IsNone(W.c._ser) THEN W
    ELSE [W EXCEPT !.conns = CloseConn(@, Val(W.c._ser)),
                   !.c._ser = None,
                   !.c._available = FALSE]

----------------------------------------------------------------------------
(* collections.deque(maxlen = max(1, n)) *)

BufSize(n) == IF n < 1 THEN 1 ELSE n

\* A variant of Push that drops the newest element of a full deque
PushEvictsNewest(buf, v, maxlen) ==
    IF Len(buf) >= maxlen THEN SubSeq(buf, 1, Len(buf) - 1) \o <<v>> ELSE Append(buf, v)

\* deque.append on a deque of the given maxlen
Push(buf, v, maxlen) ==
    IF Len(buf) >= maxlen THEN Tail(buf) \o <<v>> ELSE Append(buf, v)

RECURSIVE Sum(_)
Sum(buf) == IF buf = <<>> THEN 0 ELSE Head(buf) + Sum(Tail(buf))

----------------------------------------------------------------------------
(* SmileDetector (FacialExpression.py), ratios in units of 1/1000 *)

SmileThresh == 320
FrownThresh == 220
CornerMargin == 15

\* A variant of ClassifyWith whose smile conditions are disjunctive
ClassifyWithEither(mbuf, cbuf, smile_thresh, frown_thresh, corner_margin) ==
    IF Sum(mbuf) >= smile_thresh * Len(mbuf) \/ Sum(cbuf) < (-corner_margin) * Len(cbuf)
    THEN Str_smile
    ELSE IF Sum(mbuf) <= frown_thresh * Len(mbuf) /\ Sum(cbuf) > corner_margin * Len(cbuf)
    THEN Str_frown
    ELSE Str_neutral

\* compute: the heuristics on avg_w = sum(mouth_buf) / len(mouth_buf) and
\* avg_corner = sum(corner_buf) / len(corner_buf), both deques non-empty
ClassifyWith(mbuf, cbuf, smile_thresh, frown_thresh, corner_margin) ==
    IF Sum(mbuf) >= smile_thresh * Len(mbuf) /\ Sum(cbuf) < (-corner_margin) * Len(cbuf)
    THEN Str_smile
    ELSE IF Sum(mbuf) <= frown_thresh * Len(mbuf) /\ Sum(cbuf) > corner_margin * Len(cbuf)
    THEN Str_frown
    ELSE Str_neutral

\* The heuristics of a detector constructed with the default thresholds
Classify(mbuf, cbuf) == ClassifyWith(mbuf, cbuf, SmileThresh, FrownThresh, CornerMargin)

\* compute, from the normalized measurements m = <<mouth_w_norm, corner_diff_norm>>
\* of the frame's face: the two appends, then the label
Compute(mbuf, cbuf, m, n) ==
    LET mb == Push(mbuf, m[1], BufSize(n))
        cb == Push(cbuf, m[2], BufSize(n))
    IN  [mouth_buf |-> mb, corner_buf |-> cb, label |-> Classify(mb, cb)]

----------------------------------------------------------------------------
(* HandCounter (_5Fingers.py), coordinates in units of 1/1000 *)

Str_Right == <<"R","i","g","h","t">>
Str_Left == <<"L","e","f","t">>

\* A variant of HandCount that ignores the reported handedness
HandCountIgnoresLabel(lm, handedness_label, assume_right_hand, flipped) ==
    LET hand_label == IF assume_right_hand THEN Str_Right ELSE Str_Left
        thumb == IF hand_label = Str_Right
                 THEN IF flipped THEN lm[4].x < lm[3].x ELSE lm[4].x > lm[3].x
                 ELSE IF flipped THEN lm[4].x > lm[3].x ELSE lm[4].x < lm[3].x
        fingers == (IF thumb THEN 1 ELSE 0)
                   + Cardinality({tip_id \in {8, 12, 16, 20} : lm[tip_id].y < lm[tip_id - 2].y})
    IN  IF fingers < 0 THEN 0 ELSE IF fingers > 5 THEN 5 ELSE fingers

\* A variant of HandCount that compares each finger tip with the joint next to it
HandCountNextJoint(lm, handedness_label, assume_right_hand, flipped) ==
    LET hand_label == IF Truthy(handedness_label) THEN Val(handedness_label)
                      ELSE IF assume_right_hand THEN Str_Right ELSE Str_Left
        thumb == IF hand_label = Str_Right
                 THEN IF flipped THEN lm[4].x < lm[3].x ELSE lm[4].x > lm[3].x
                 ELSE IF flipped THEN lm[4].x > lm[3].x ELSE lm[4].x < lm[3].x
        fingers == (IF thumb THEN 1 ELSE 0)
                   + Cardinality({tip_id \in {8, 12, 16, 20} : lm[tip_id].y < lm[tip_id - 1].y})
    IN  IF fingers < 0 THEN 0 ELSE IF fingers > 5 THEN 5 ELSE fingers

\* HandCounter.count; lm maps a landmark id to [x, y]
HandCount(lm, handedness_label, assume_right_hand, flipped) ==
    LET hand_label == IF Truthy(handedness_label) THEN Val(handedness_label)
                      ELSE IF assume_right_hand THEN Str_Right ELSE Str_Left
        thumb == IF hand_label = Str_Right
                 THEN IF flipped THEN lm[4].x < lm[3].x ELSE lm[4].x > lm[3].x
                 ELSE IF flipped THEN lm[4].x > lm[3].x ELSE lm[4].x < lm[3].x
        fingers == (IF thumb THEN 1 ELSE 0)
                   + Cardinality({tip_id \in {8, 12, 16, 20} : lm[tip_id].y < lm[tip_id - 2].y})
    IN  IF fingers < 0 THEN 0 ELSE IF fingers > 5 THEN 5 ELSE fingers

\* int(round(num / den)) for num >= 0, den > 0: Python rounds a tie to the even integer
RoundDiv(num, den) ==
    LET q == num \div den
        r == num % den
    IN  IF 2 * r < den THEN q
        ELSE IF 2 * r > den THEN q + 1
        ELSE IF q % 2 = 0 THEN q ELSE q + 1

\* A variant of Smooth that does not divide the sum by the length
SmoothSum(buf, detected_count, n) ==
    LET b == Push(buf, detected_count, BufSize(n))
    IN  [buffer |-> b, avg |-> Sum(b)]

\* run_camera_loop: buffer.append(detected_count); avg = int(round(sum(buffer) / len(buffer)))
Smooth(buf, detected_count, n) ==
    LET b == Push(buf, detected_count, BufSize(n))
    IN  [buffer |-> b, avg |-> RoundDiv(Sum(b), Len(b))]

----------------------------------------------------------------------------
(* The per-frame detection step of the two loops *)

\* A variant of ExprDetect that feeds a zero measurement when no face is detected
ExprDetectFeedsDefault(mbuf, cbuf, face, n) ==
    LET d == Compute(mbuf, cbuf, IF IsNone(face) THEN <<0, 0>> ELSE Val(face), n)
    IN  [mouth_buf |-> d.mouth_buf, corner_buf |-> d.corner_buf,
         label |-> IF IsNone(face) THEN None ELSE Some(d.label)]

\* run: "if faces:" guards the call of detector.compute; label is None when the
\* branch is skipped
ExprDetect(mbuf, cbuf, face, n) ==
    IF IsNone(face)
    THEN [mouth_buf |-> mbuf, corner_buf |-> cbuf, label |-> None]
    ELSE LET d == Compute(mbuf, cbuf, Val(face), n)
         IN  [mouth_buf |-> d.mouth_buf, corner_buf |-> d.corner_buf,
              label |-> Some(d.label)]

\* run_camera_loop: detected_count = 0, replaced by hand_counter.count(...) when a
\* hand is detected; the append and the average follow in either case
GestDetect(buf, hand, n) ==
    Smooth(buf,
           IF IsNone(hand) THEN 0
           ELSE HandCount(Val(hand).lm, Val(hand).label,
                          hand_counter.assume_right_hand, hand_counter.flipped),
           n)

----------------------------------------------------------------------------
(* The send-on-change gate of run and run_camera_loop *)

\* A variant of Changed that never suppresses
ChangedAlways(pv, v) == TRUE

\* A variant of NewPrev that records the value whether or not it was sent
NewPrevAlways(pv, v, sent) == Some(v)

\* A variant of Changed that takes "no prior value" for "no change"
ChangedUnlessFirst(pv, v) == pv # None /\ Some(v) # pv

\* A variant of NewPrev that forgets the last-sent value when a send fails
NewPrevClearsOnFailure(pv, v, sent) == IF sent THEN Some(v) ELSE None

\* label != prev_label / avg != prev_sent
Changed(pv, v) == Some(v) # pv

\* if sent: prev_label = label
NewPrev(pv, v, sent) == IF sent THEN Some(v) ELSE pv

\* A world from the state and the client object c
World(c) == [c |-> c, conns |-> conns, writes |-> writes, attempts |-> attempts]

\* run: if serial_client and label != prev_label: ...
GateExpr(sc, pv, label, wok) ==
    IF ~IsNone(sc) /\ Changed(pv, label)
    THEN LET r == SendSignal(World(Val(sc)), Some(label), wok)
         IN  [W |-> r.W, sc |-> Some(r.W.c), prev |-> NewPrev(pv, label, r.ret),
              called |-> TRUE, ret |-> r.ret]
    ELSE [W |-> World(None), sc |-> sc, prev |-> pv, called |-> FALSE, ret |-> FALSE]

\* run_camera_loop: if serial_client and avg != prev_sent: ...
GateGest(sc, pv, avg, wok) ==
    IF ~IsNone(sc) /\ Changed(pv, avg)
    THEN LET r == SendCount(World(Val(sc)), avg, wok)
         IN  [W |-> r.W, sc |-> Some(r.W.c), prev |-> NewPrev(pv, avg, r.ret),
              called |-> TRUE, ret |-> r.ret]
    ELSE [W |-> World(None), sc |-> sc, prev |-> pv, called |-> FALSE, ret |-> FALSE]

----------------------------------------------------------------------------
(* Inputs *)

PortArgs == {None, Some(Str_empty), Some(Dev_ACM0), Some(Dev_S0)}

HostLists == {<<>>, <<Dev_S0, Dev_USB0, Dev_ACM0>>, <<Dev_ACM0, Dev_S0>>}

\* <<mouth_w_norm, corner_diff_norm>> of a face: frown-like, neutral, smile-like
Measurements == {<<200, 20>>, <<300, 0>>, <<400, -20>>}

\* Hand landmarks: thumb tip at x = tx (thumb joint at 450); the fingers whose tip
\* id is in up have their tip above the joint
MakeHand(tx, up) ==
    [i \in 0..20 |->
        IF i = 4 THEN [x |-> tx, y |-> 500]
        ELSE IF i = 3 THEN [x |-> 450, y |-> 500]
        ELSE IF i \in up THEN [x |-> 500, y |-> 300]
        ELSE IF i \in {8, 12, 16, 20} THEN [x |-> 500, y |-> 600]
        ELSE [x |-> 500, y |-> 500]]

Hands == {MakeHand(400, {8, 12, 16, 20}), MakeHand(500, {})}

Handedness == {None, Some(Str_Right), Some(Str_Left)}

\* run_camera_loop: HandCounter(assume_right_hand=True, flipped=True)
DefaultHandCounter == [assume_right_hand |-> TRUE, flipped |-> TRUE]

Str_Smile == <<"S","m","i","l","e">>
Str_frown_padded == <<" ","f","r","o","w","n","\n">>
Str_surprise == <<"s","u","r","p","r","i","s","e">>

ApiLabels == {None, Some(Str_neutral), Some(Str_Smile), Some(Str_frown_padded),
              Some(Str_surprise)}

ApiCounts == {0, 12}

Step(op, detected, called, ret) ==
    [op |-> op, detected |-> detected, called |-> called, ret |-> ret]

\* A write raised during this step
WriteFailed(ws) == Len(ws) > Len(writes) /\ ~ws[Len(ws)].ok

----------------------------------------------------------------------------
(* A session: run (FacialExpression.py) or run_camera_loop (_5Fingers.py) *)

\* SmileDetector.__init__: two empty deques; no label computed yet
NewDetector == [mouth_buf |-> <<>>, corner_buf |-> <<>>, label |-> None]

\* The specifications that start with the startup of run / run_camera_loop
SessionModes == {"session", "twin", "scenario"}

\* Up to the camera check: the client is constructed unless --noserial is given or
\* pyserial is missing; a camera that does not open ends the session
Startup ==
    /\ mode \in SessionModes /\ pc = "start"
    /\ \E camOk \in BOOLEAN :
       \E okAt \in [CandidateSet(NewClient(port, retriesArg), host) -> 0..retriesArg] :
          LET W == SerialClientInit(World(None), port, retriesArg, pyserial, host, okAt) IN
          /\ IF ~noserial /\ pyserial
             THEN /\ serial_client' = Some(W.c)
                  /\ conns' = W.conns
                  /\ attempts' = W.attempts
             ELSE /\ serial_client' = None
                  /\ UNCHANGED <<conns, attempts>>
          /\ pc' = IF camOk THEN "loop" ELSE "done"
    /\ last' = Step("start", FALSE, FALSE, FALSE)
    /\ UNCHANGED <<config, fnvars, closeCalls, prev, mouth_buf, corner_buf, buffer, writes, sendCalls,
                   failed, steps>>

\* One iteration of the loop of run: face is the first detected face's
\* measurements, or None when no face is detected
ExprFrameStep(face, wok) ==
    LET d == ExprDetect(mouth_buf, corner_buf, face, smooth) IN
    /\ mouth_buf' = d.mouth_buf
    /\ corner_buf' = d.corner_buf
    /\ IF IsNone(d.label)
       THEN /\ last' = Step("frame", FALSE, FALSE, FALSE)
            /\ UNCHANGED <<serial_client, prev, conns, writes, attempts,
                           sendCalls, failed>>
       ELSE LET g == GateExpr(serial_client, prev, Val(d.label), wok) IN
            /\ serial_client' = g.sc
            /\ prev' = g.prev
            /\ conns' = g.W.conns
            /\ writes' = g.W.writes
            /\ attempts' = g.W.attempts
            /\ sendCalls' = sendCalls + (IF g.called THEN 1 ELSE 0)
            /\ failed' = (failed \/ WriteFailed(g.W.writes))
            /\ last' = Step("frame", TRUE, g.called, g.ret)
    /\ steps' = steps + 1

\* A frame of a session of run, with any face and any write outcome
ExprFrame ==
    /\ mode = "session" /\ pc = "loop" /\ pipeline = "expr" /\ steps < MaxFrames
    /\ \E face \in {None} \cup {Some(m) : m \in Measurements}, wok \in BOOLEAN :
          ExprFrameStep(face, wok)
    /\ UNCHANGED <<config, fnvars, closeCalls, pc, buffer>>

\* One iteration of the loop of run_camera_loop: hand is the first detected
\* hand's landmarks and handedness, or None when no hand is detected
GestFrame ==
    /\ mode = "session" /\ pc = "loop" /\ pipeline = "gest" /\ steps < MaxFrames
    /\ \E hand \in {None} \cup {Some([lm |-> h, label |-> l]) : h \in Hands, l \in Handedness},
          wok \in BOOLEAN :
          LET d == GestDetect(buffer, hand, smooth)
              g == GateGest(serial_client, prev, d.avg, wok)
          IN  /\ buffer' = d.buffer
              /\ serial_client' = g.sc
              /\ prev' = g.prev
              /\ conns' = g.W.conns
              /\ writes' = g.W.writes
              /\ attempts' = g.W.attempts
              /\ sendCalls' = sendCalls + (IF g.called THEN 1 ELSE 0)
              /\ failed' = (failed \/ WriteFailed(g.W.writes))
              /\ last' = Step("frame", ~IsNone(hand), g.called, g.ret)
    /\ steps' = steps + 1
    /\ UNCHANGED <<config, fnvars, closeCalls, pc, mouth_buf, corner_buf>>

\* The loop ends (quit key, or a frame could not be read): the finally block
Exit ==
    /\ mode = "session" /\ pc = "loop"
    /\ IF IsNone(serial_client)
       THEN UNCHANGED <<serial_client, conns, closeCalls>>
       ELSE LET W == SerialClose(World(Val(serial_client))) IN
            /\ serial_client' = Some(W.c)
            /\ conns' = W.conns
            /\ closeCalls' = closeCalls + 1
    /\ pc' = "done"
    /\ last' = Step("exit", FALSE, FALSE, FALSE)
    /\ UNCHANGED <<config, fnvars, prev, mouth_buf, corner_buf, buffer, writes, attempts,
                   sendCalls, failed, steps>>

InitCommon ==
    /\ pipeline \in {"expr", "gest"}
    /\ port \in PortArgs
    /\ pc = "start"
    /\ serial_client = None
    /\ prev = None
    /\ mouth_buf = <<>> /\ corner_buf = <<>> /\ buffer = <<>>
    /\ conns = <<>> /\ writes = <<>> /\ attempts = <<>>
    /\ sendCalls = 0 /\ failed = FALSE /\ steps = 0
    /\ last = Step("none", FALSE, FALSE, FALSE)
    /\ closeCalls = 0
    /\ fn = None /\ out = None /\ hist = <<>>
    /\ twin = NewDetector
    /\ hand_counter = DefaultHandCounter

\* run / run_camera_loop construct SerialClient(port, baud): retries is the default;
\* with an explicit or empty port the host's device list is never read
Init ==
    /\ InitCommon
    /\ mode = "session"
    /\ noserial \in BOOLEAN
    /\ pyserial \in BOOLEAN
    /\ smooth \in 0..MaxSmooth
    /\ retriesArg = DefaultRetries
    /\ host = <<Dev_S0, Dev_ACM0>>

Next == Startup \/ ExprFrame \/ GestFrame \/ Exit

Spec == Init /\ [][Next]_vars

----------------------------------------------------------------------------
(* SerialClient used directly: the constructor, then any calls of its       *)
(* public methods open, send_signal / send_count and close                  *)

ApiConstruct ==
    /\ mode = "api" /\ pc = "start"
    /\ \E okAt \in [CandidateSet(NewClient(port, retriesArg), host) -> 0..retriesArg] :
          LET W == SerialClientInit(World(None), port, retriesArg, pyserial, host, okAt) IN
          /\ serial_client' = Some(W.c)
          /\ conns' = W.conns
          /\ attempts' = W.attempts
    /\ pc' = "loop"
    /\ last' = Step("init", FALSE, FALSE, FALSE)
    /\ UNCHANGED <<config, fnvars, closeCalls, prev, mouth_buf, corner_buf, buffer, writes, sendCalls,
                   failed, steps>>

ApiOpen ==
    /\ mode = "api" /\ pc = "loop" /\ steps < MaxOps
    /\ \E okAt \in [CandidateSet(Val(serial_client), host) -> 0..retriesArg] :
          LET W == SerialOpen(World(Val(serial_client)), host, okAt) IN
          /\ serial_client' = Some(W.c)
          /\ conns' = W.conns
          /\ attempts' = W.attempts
    /\ steps' = steps + 1
    /\ last' = Step("open", FALSE, FALSE, FALSE)
    /\ UNCHANGED <<config, fnvars, closeCalls, pc, prev, mouth_buf, corner_buf, buffer, writes, sendCalls,
                   failed>>

ApiSend ==
    /\ mode = "api" /\ pc = "loop" /\ steps < MaxOps
    /\ \E wok \in BOOLEAN :
       \E r \in IF pipeline = "expr"
                THEN {SendSignal(World(Val(serial_client)), l, wok) : l \in ApiLabels}
                ELSE {SendCount(World(Val(serial_client)), n, wok) : n \in ApiCounts} :
          /\ serial_client' = Some(r.W.c)
          /\ conns' = r.W.conns
          /\ writes' = r.W.writes
          /\ failed' = (failed \/ WriteFailed(r.W.writes))
          /\ last' = Step("send", FALSE, TRUE, r.ret)
    /\ sendCalls' = sendCalls + 1
    /\ steps' = steps + 1
    /\ UNCHANGED <<config, fnvars, closeCalls, pc, prev, mouth_buf, corner_buf, buffer, attempts>>

ApiClose ==
    /\ mode = "api" /\ pc = "loop" /\ steps < MaxOps
    /\ LET W == SerialClose(World(Val(serial_client))) IN
          /\ serial_client' = Some(W.c)
          /\ conns' = W.conns
    /\ closeCalls' = closeCalls + 1
    /\ steps' = steps + 1
    /\ last' = Step("close", FALSE, FALSE, FALSE)
    /\ UNCHANGED <<config, fnvars, pc, prev, mouth_buf, corner_buf, buffer, writes, attempts,
                   sendCalls, failed>>

InitApi ==
    /\ InitCommon
    /\ mode = "api"
    /\ noserial = FALSE
    /\ pyserial = TRUE
    /\ smooth = 0
    /\ retriesArg \in 0..MaxRetries
    /\ host \in HostLists

NextApi == ApiConstruct \/ ApiOpen \/ ApiSend \/ ApiClose

SpecApi == InitApi /\ [][NextApi]_vars

----------------------------------------------------------------------------
(* State functions used by the properties *)

\* The client object, when there is one
Client == Val(serial_client)

\* The channel is Open
IsOpen == ~IsNone(serial_client) /\ ~NotOpen(Client)

\* The label / count computed by the most recent frame that reached the gate
CurOut ==
    IF pipeline = "expr"
    THEN IF mouth_buf = <<>> THEN None ELSE Some(Classify(mouth_buf, corner_buf))
    ELSE IF buffer = <<>> THEN None ELSE Some(RoundDiv(Sum(buffer), Len(buffer)))

\* The last step was a frame whose output reached the gate
GateInvoked == last.op = "frame" /\ (pipeline = "gest" \/ last.detected)

\* The line written for a label / count
WireOf(v) == IF pipeline = "expr" THEN Message(Mapping[v]) ELSE Message(v)

LastWrite(ws) == ws[Len(ws)]

----------------------------------------------------------------------------
(* Properties of the change gate (specification Spec) *)

\* C1: in both pipelines the last-sent value changes only in a frame whose send
\* returned true (one successful write, of the line for the new value), and a frame
\* whose send returned false leaves the last-sent value as it was.
C1_PrevUpdatedOnlyOnSuccess ==
    [][ /\ prev' # prev =>
            /\ last'.called /\ last'.ret
            /\ prev' = CurOut'
            /\ Len(writes') = Len(writes) + 1
            /\ LastWrite(writes').ok
            /\ LastWrite(writes').msg = WireOf(Val(prev'))
        /\ (last'.op = "frame" /\ last'.called /\ ~last'.ret) => prev' = prev
      ]_vars

\* A frame whose send failed after an earlier value had been sent
C1_Witness ==
    /\ last.op = "frame" /\ last.called /\ ~last.ret
    /\ prev # None /\ prev # CurOut

\* C2: every line written differs from the line of the previous successful write.
C2_NoRedundantWrite ==
    \A i \in 1..Len(writes) :
        \A j \in 1..(i - 1) :
            (writes[j].ok /\ \A k \in (j + 1)..(i - 1) : ~writes[k].ok)
                => writes[i].msg # writes[j].msg

\* Two values were sent and a stable frame was then suppressed
C2_Witness ==
    /\ Len(writes) = 2 /\ writes[1].ok /\ writes[2].ok
    /\ GateInvoked /\ ~last.called /\ IsOpen

\* C3: a frame whose output equals the last successfully sent value issues no
\* send call, writes nothing and keeps the last-sent value; so any run of equal
\* outputs after one successful send has that one send call only.
C3_GateIdempotent ==
    [][ (steps' = steps + 1 /\ GateInvoked' /\ prev # None /\ CurOut' = prev)
            => (sendCalls' = sendCalls /\ writes' = writes /\ prev' = prev /\ ~last'.called)
      ]_vars

\* One successful send followed by two frames with the same output
C3_Witness ==
    /\ steps = 3 /\ sendCalls = 1 /\ Len(writes) = 1 /\ writes[1].ok
    /\ GateInvoked /\ ~last.called /\ prev = CurOut
    /\ (pipeline = "expr" => Len(mouth_buf) = BufSize(smooth))

\* C4: after a frame whose send returned false the last-sent value is not the
\* frame's output, and a next frame with the same output calls send again.
C4_RetryAfterFailure ==
    [][ /\ (last'.op = "frame" /\ last'.called /\ ~last'.ret) => prev' # CurOut'
        /\ (/\ last.op = "frame" /\ last.called /\ ~last.ret
            /\ steps' = steps + 1 /\ GateInvoked' /\ CurOut' = CurOut)
            => (last'.called /\ sendCalls' = sendCalls + 1)
      ]_vars

\* Two frames with the same frown label, each of which called send and failed
C4_Witness ==
    /\ pipeline = "expr" /\ steps = 2 /\ sendCalls = 2
    /\ mouth_buf = <<200, 200>> /\ corner_buf = <<20, 20>>
    /\ last.called /\ ~last.ret /\ prev = None

\* C5 as stated: a frame with no detected subject modifies no smoothing buffer,
\* in either pipeline.
C5_NoSubjectLeavesAllBuffers ==
    [][ (steps' = steps + 1 /\ last'.op = "frame" /\ ~last'.detected)
            => UNCHANGED <<mouth_buf, corner_buf, buffer>>
      ]_vars

\* C5 (amended): a frame with no detected subject leaves both buffers of the
\* expression pipeline unchanged, and appends the count 0 to the buffer of the
\* gesture pipeline.
C5_NoSubjectBuffers ==
    [][ (steps' = steps + 1 /\ last'.op = "frame" /\ ~last'.detected)
            => /\ UNCHANGED <<mouth_buf, corner_buf>>
               /\ pipeline = "expr" => UNCHANGED <<buffer, prev, writes, sendCalls>>
               /\ pipeline = "gest" => buffer' = Push(buffer, 0, BufSize(smooth))
      ]_vars

\* A frame without a face after frames with one
C5_Witness ==
    /\ pipeline = "expr" /\ last.op = "frame" /\ ~last.detected
    /\ mouth_buf # <<>> /\ corner_buf # <<>>

----------------------------------------------------------------------------
(* Properties of SerialClient *)

\* The host's devices that open() keeps, in the host's order
UsbLike == SelectSeq(host, IsUsbLike)

\* C6 as stated: a client constructed without an explicit port has, when the
\* constructor returns, tried the host's 'ACM' / 'USB' devices in order (here: at
\* least the first of them, when there is one and retries > 0).
C6_NoPortProbesHost ==
    (last.op = "init" /\ ~Truthy(port) /\ UsbLike # <<>> /\ retriesArg > 0)
        => (attempts # <<>> /\ attempts[1].dev = UsbLike[1])

\* C7: a write that raises during a send on an Open channel makes the send return
\* false, closes the connection once, drops the handle and marks the channel
\* unavailable; the send makes that one write call only.
C7_WriteFailureDisables ==
    [][ WriteFailed(writes') =>
            /\ IsOpen
            /\ ~last'.ret
            /\ Len(writes') = Len(writes) + 1
            /\ LastWrite(writes').conn = Val(Client._ser)
            /\ ~Client'._available
            /\ IsNone(Client'._ser)
            /\ ~conns'[Val(Client._ser)].open
            /\ conns'[Val(Client._ser)].closes = conns[Val(Client._ser)].closes + 1
      ]_vars

\* A send whose write raised
C7_Witness ==
    /\ last.op = "send" /\ ~last.ret /\ failed
    /\ writes # <<>> /\ ~LastWrite(writes).ok
    /\ ~conns[LastWrite(writes).conn].open

\* C8: within a session, once a write has raised the channel is never Open again
\* and no further write call is made on any connection.
C8_FailedIsTerminal ==
    [][ /\ failed' => ~IsOpen'
        /\ failed => (failed' /\ writes' = writes /\ conns' = conns)
      ]_vars

\* After a write failure a later frame called send, which wrote nothing, and the
\* session then ended
C8_Witness ==
    /\ failed /\ pc = "done"
    /\ ~LastWrite(writes).ok
    /\ sendCalls > Len(writes)

\* C9: a send on a channel that is not Open returns false, writes nothing and
\* leaves the client's fields and every connection unchanged.
C9_SendWhenNotOpen ==
    [][ (last'.op = "send" /\ steps' = steps + 1 /\ ~IsOpen)
            => /\ ~last'.ret
               /\ writes' = writes
               /\ serial_client' = serial_client
               /\ conns' = conns
               /\ attempts' = attempts
               /\ failed' = failed
      ]_vars

\* A send on a channel that was opened and then closed
C9_Witness ==
    /\ last.op = "send" /\ ~last.ret /\ ~IsOpen
    /\ ~failed /\ Len(conns) = 1 /\ conns[1].closes = 1 /\ writes = <<>>

\* open() has run as the last step (the constructor runs it for a non-empty port)
OpenRan == last.op = "open" \/ (last.op = "init" /\ Truthy(port))

\* C10: the k-th open attempt of a connect is attempt ((k-1) mod R) + 1 on candidate
\* ((k-1) div R) + 1, so candidates are tried in order with R attempts each; only
\* the last attempt can have succeeded; after a success the channel is Open on that
\* candidate; without a success every candidate was tried R times.
C10_ConnectOrder ==
    OpenRan =>
        LET cands == Candidates(Client, host)
            R == Client.retries
            n == Len(attempts)
        IN  /\ n <= R * Len(cands)
            /\ \A k \in 1..n :
                  /\ attempts[k].dev = cands[((k - 1) \div R) + 1]
                  /\ attempts[k].attempt = ((k - 1) % R) + 1
                  /\ attempts[k].ok => k = n
            /\ (n > 0 /\ attempts[n].ok) =>
                  /\ IsOpen
                  /\ Val(Client._ser) = Len(conns)
                  /\ conns[Len(conns)] = [dev |-> attempts[n].dev, open |-> TRUE, closes |-> 0]
            /\ (n = 0 \/ ~attempts[n].ok) => n = R * Len(cands)

\* The first candidate failed R times and the second opened on a retry
C10_Witness ==
    /\ last.op = "open" /\ Client.retries >= 2
    /\ Len(attempts) > Client.retries + 1
    /\ LastWrite(attempts).ok /\ LastWrite(attempts).attempt >= 2

\* No serial.Serial(...) call of this client has ever succeeded, and its last
\* open() made at least one
ConnectExhausted ==
    /\ ~IsNone(serial_client)
    /\ conns = <<>>
    /\ attempts # <<>>
    /\ \A k \in 1..Len(attempts) : ~attempts[k].ok

\* C11: when every open attempt on every candidate has failed, connect has made
\* exactly R attempts per candidate and returned; the channel is not Open and holds
\* no handle; and every later send returns false and nothing is ever written.
C11_ExhaustedConnectDisables ==
    ConnectExhausted =>
        /\ Len(attempts) = Client.retries * Len(Candidates(Client, host))
        /\ ~IsOpen /\ IsNone(Client._ser) /\ ~Client._available
        /\ writes = <<>> /\ ~failed
        /\ last.op = "send" => ~last.ret

\* A send after a connect that failed on each of two candidates
C11_Witness ==
    /\ ConnectExhausted
    /\ Len(Candidates(Client, host)) = 2 /\ Client.retries >= 2
    /\ last.op = "send" /\ ~last.ret /\ sendCalls >= 1


----------------------------------------------------------------------------
(* Further properties of the sessions and of SerialClient *)

DigitLines(ds) == {<<d, "\n">> : d \in ds}

\* C13: every line ever written is "1\n", "2\n" or "3\n" in the expression
\* pipeline and "0\n" .. "5\n" in the gesture pipeline.
C13_WireValues ==
    \A i \in 1..Len(writes) :
        /\ pipeline = "expr" => writes[i].msg \in DigitLines({"1", "2", "3"})
        /\ pipeline = "gest" => writes[i].msg \in DigitLines({"0", "1", "2", "3", "4", "5"})

\* A frame without a hand whose average, 0, was written after an earlier value
C13_Witness ==
    /\ pipeline = "gest" /\ last.op = "frame" /\ ~last.detected
    /\ last.called /\ last.ret
    /\ Len(writes) >= 2 /\ LastWrite(writes).msg = <<"0", "\n">>

\* C14: no connection is ever closed twice; a close leaves the channel not Open
\* with no handle, closing the held connection once if there is one and changing
\* nothing else; a close that follows a close changes nothing at all.
C14_CloseIdempotent ==
    [][ /\ \A i \in 1..Len(conns') : conns'[i].closes <= 1
        /\ (last'.op = "close" /\ closeCalls' = closeCalls + 1) =>
              /\ ~IsOpen' /\ IsNone(Client'._ser) /\ ~Client'._available
              /\ writes' = writes /\ attempts' = attempts /\ failed' = failed
              /\ IF IsNone(Client._ser)
                 THEN serial_client' = serial_client /\ conns' = conns
                 ELSE conns' = [conns EXCEPT ![Val(Client._ser)].open = FALSE,
                                             ![Val(Client._ser)].closes = 1]
        /\ (last.op = "close" /\ last'.op = "close" /\ closeCalls' = closeCalls + 1) =>
              (serial_client' = serial_client /\ conns' = conns)
      ]_vars

\* Two closes in a row on a channel that the constructor had opened
C14_Witness ==
    /\ last.op = "close" /\ steps = 2 /\ closeCalls = 2
    /\ Len(conns) = 1 /\ conns[1].closes = 1 /\ ~conns[1].open
    /\ IsNone(Client._ser)

\* C15: while nothing has been sent successfully (the last-sent value is still
\* None), a frame that reaches the gate with an Open channel calls send and makes
\* one write call, of the line for the frame's output.
C15_FirstStateIsSent ==
    [][ (steps' = steps + 1 /\ GateInvoked' /\ IsOpen /\ prev = None) =>
            /\ last'.called
            /\ sendCalls' = sendCalls + 1
            /\ Len(writes') = Len(writes) + 1
            /\ LastWrite(writes').msg = WireOf(Val(CurOut'))
            /\ LastWrite(writes').ok => prev' = CurOut'
      ]_vars

\* The first frame of a session wrote the count 0
C15_Witness ==
    /\ pipeline = "gest" /\ steps = 1 /\ last.called /\ last.ret
    /\ Len(writes) = 1 /\ writes[1].ok /\ writes[1].msg = <<"0", "\n">>
    /\ prev = Some(0)

\* The line of the last successful write, if any
LastOkLine ==
    LET ok == {i \in 1..Len(writes) : writes[i].ok} IN
    IF ok = {} THEN None
    ELSE Some(writes[CHOOSE i \in ok : \A j \in ok : j <= i].msg)

\* C16: after a frame whose send returned false, a frame whose output is the
\* last successfully sent value issues no send call and writes nothing, and the
\* last-sent value stays that value.
C16_OscillationIsNoChange ==
    [][ (/\ last.op = "frame" /\ last.called /\ ~last.ret
         /\ steps' = steps + 1 /\ GateInvoked'
         /\ LastOkLine # None /\ WireOf(Val(CurOut')) = Val(LastOkLine))
            => /\ ~last'.called
               /\ sendCalls' = sendCalls
               /\ writes' = writes
               /\ prev' = prev /\ prev' = CurOut'
      ]_vars

\* A value was sent, the send of a second value failed, and a frame with the
\* first value was suppressed
C16_Witness ==
    /\ steps = 3 /\ sendCalls = 2 /\ Len(writes) = 2
    /\ writes[1].ok /\ ~writes[2].ok
    /\ GateInvoked /\ ~last.called /\ prev = CurOut

----------------------------------------------------------------------------
(* Function specification: one method or function applied to drawn inputs.  *)
(* pc names the function; fn holds the inputs of the last application and   *)
(* out its result.                                                          *)

Str_SMILE == <<"S","M","I","L","E">>
Str_smiles == <<"s","m","i","l","e","s">>
Str_blank == <<" ">>

FnLabels == ApiLabels \cup {Some(Str_smile), Some(Str_frown), Some(Str_empty),
                            Some(Str_SMILE), Some(Str_smiles), Some(Str_blank)}

\* A client whose constructor opened ttyACM0 on the first attempt
OpenWorld ==
    SerialClientInit([c |-> None, conns |-> <<>>, writes |-> <<>>, attempts |-> <<>>],
                     Some(Dev_ACM0), DefaultRetries, TRUE, <<>>, (Dev_ACM0 :> 1))

\* send_signal(label) on an Open channel
FnSendSignal ==
    /\ mode = "fn" /\ pc = "send_signal"
    /\ fn = None
    /\ \E label \in FnLabels, wok \in BOOLEAN :
          /\ fn' = Some([name |-> "send_signal", label |-> label, wok |-> wok])
          /\ out' = Some(SendSignal(OpenWorld, label, wok))
    /\ UNCHANGED <<config, pc, serial_client, prev, mouth_buf, corner_buf, buffer, conns,
                   writes, attempts, sendCalls, failed, steps, last, closeCalls, hist, twin>>

\* Measurements and counts appended by the smoothing steps
PushMeasurements == {<<w, c>> : w \in {200, 400}, c \in {-20, 20}}
PushCounts == {0, 3, 5}

\* SmileDetector.compute called on successive faces by one detector
FnPushExpr ==
    /\ mode = "fn" /\ pc = "push" /\ pipeline = "expr"
    /\ Len(hist) < MaxPush
    /\ \E m \in PushMeasurements :
          LET d == Compute(mouth_buf, corner_buf, m, smooth)
          IN  /\ mouth_buf' = d.mouth_buf
              /\ corner_buf' = d.corner_buf
              /\ fn' = Some([name |-> "compute", m |-> m])
              /\ out' = Some(d.label)
              /\ hist' = Append(hist, m)
    /\ UNCHANGED <<config, pc, serial_client, prev, buffer, conns, writes, attempts,
                   sendCalls, failed, steps, last, closeCalls, twin>>

\* The append and the average of run_camera_loop on successive counts
FnPushGest ==
    /\ mode = "fn" /\ pc = "push" /\ pipeline = "gest"
    /\ Len(hist) < MaxPush
    /\ \E detected_count \in PushCounts :
          LET d == Smooth(buffer, detected_count, smooth)
          IN  /\ buffer' = d.buffer
              /\ fn' = Some([name |-> "smooth", detected_count |-> detected_count])
              /\ out' = Some(d.avg)
              /\ hist' = Append(hist, detected_count)
    /\ UNCHANGED <<config, pc, serial_client, prev, mouth_buf, corner_buf, conns, writes,
                   attempts, sendCalls, failed, steps, last, closeCalls, twin>>

\* Contents of the two deques of a detector: one or two values each
ClsWidths == {200, 220, 320, 350}
ClsOffsets == {-20, -15, 0, 15, 20}
ClsBufs(S) == {<<a>> : a \in S} \cup {<<a, b>> : a \in S, b \in S}

\* SmileDetector.__init__: smile_thresh, frown_thresh, corner_margin
DefaultThresholds ==
    [smile_thresh |-> SmileThresh, frown_thresh |-> FrownThresh,
     corner_margin |-> CornerMargin]
ThresholdConfigs ==
    {DefaultThresholds,
     [smile_thresh |-> 320, frown_thresh |-> 220, corner_margin |-> 0],
     [smile_thresh |-> 200, frown_thresh |-> 330, corner_margin |-> 15],
     [smile_thresh |-> 200, frown_thresh |-> 330, corner_margin |-> -30]}

\* The heuristics of compute for a detector with the given thresholds and deques
FnClassify ==
    /\ mode = "fn" /\ pc = "classify"
    /\ fn = None
    /\ \E mbuf \in ClsBufs(ClsWidths), cbuf \in ClsBufs(ClsOffsets), cfg \in ThresholdConfigs :
          /\ fn' = Some([name |-> "classify", mbuf |-> mbuf, cbuf |-> cbuf, cfg |-> cfg])
          /\ out' = Some(ClassifyWith(mbuf, cbuf, cfg.smile_thresh, cfg.frown_thresh,
                                      cfg.corner_margin))
    /\ UNCHANGED <<config, pc, serial_client, prev, mouth_buf, corner_buf, buffer, conns,
                   writes, attempts, sendCalls, failed, steps, last, closeCalls, hist, twin>>

\* Hand landmarks: thumb tip at x = tx (thumb joint at 450); finger tip i at
\* y = ty[i], its joint i - 2 at 500, the joint i - 1 between them at 550
MakeHandAt(tx, ty) ==
    [i \in 0..20 |->
        IF i = 4 THEN [x |-> tx, y |-> 500]
        ELSE IF i = 3 THEN [x |-> 450, y |-> 500]
        ELSE IF i \in {8, 12, 16, 20} THEN [x |-> 500, y |-> ty[i]]
        ELSE IF i \in {6, 10, 14, 18} THEN [x |-> 500, y |-> 500]
        ELSE IF i \in {7, 11, 15, 19} THEN [x |-> 500, y |-> 550]
        ELSE [x |-> 500, y |-> 700]]

FnHands == {MakeHandAt(tx, ty) : tx \in {400, 450, 500},
                                 ty \in [{8, 12, 16, 20} -> {300, 500, 600}]}

FnHandedness == Handedness \cup {Some(Str_empty)}

HandCounters == [assume_right_hand : BOOLEAN, flipped : BOOLEAN]

\* HandCounter.count(hand_landmarks, handedness_label)
FnHandCount ==
    /\ mode = "fn" /\ pc = "count"
    /\ fn = None
    /\ \E lm \in FnHands, handedness_label \in FnHandedness :
          /\ fn' = Some([name |-> "count", lm |-> lm, handedness_label |-> handedness_label])
          /\ out' = Some(HandCount(lm, handedness_label, hand_counter.assume_right_hand,
                                   hand_counter.flipped))
    /\ UNCHANGED <<config, pc, serial_client, prev, mouth_buf, corner_buf, buffer, conns,
                   writes, attempts, sendCalls, failed, steps, last, closeCalls, hist, twin>>

FnKinds == {"send_signal", "push", "classify", "count"}

InitFn ==
    /\ mode = "fn"
    /\ pc \in FnKinds
    /\ pipeline \in (IF pc = "push" THEN {"expr", "gest"}
                     ELSE IF pc = "count" THEN {"gest"} ELSE {"expr"})
    /\ smooth \in (IF pc = "push" THEN (-1)..MaxWindow ELSE {0})
    /\ hand_counter \in (IF pc = "count" THEN HandCounters ELSE {DefaultHandCounter})
    /\ port = None /\ noserial = FALSE /\ pyserial = TRUE
    /\ retriesArg = DefaultRetries /\ host = <<>>
    /\ serial_client = None
    /\ prev = None
    /\ mouth_buf = <<>> /\ corner_buf = <<>> /\ buffer = <<>>
    /\ conns = <<>> /\ writes = <<>> /\ attempts = <<>>
    /\ sendCalls = 0 /\ failed = FALSE /\ steps = 0
    /\ last = Step("none", FALSE, FALSE, FALSE)
    /\ closeCalls = 0
    /\ fn = None /\ out = None /\ hist = <<>>
    /\ twin = NewDetector

NextFn == FnSendSignal \/ FnPushExpr \/ FnPushGest \/ FnClassify \/ FnHandCount

SpecFn == InitFn /\ [][NextFn]_vars

----------------------------------------------------------------------------
(* Properties of the functions (specification SpecFn) *)

\* The line for a one-digit code
Line(digit) == <<digit, "\n">>

\* The result of a send on OpenWorld that made the one write call of line msg
WroteOnce(r, msg, wok) ==
    /\ r.W.writes = <<[conn |-> 1, msg |-> msg, ok |-> wok]>>
    /\ r.ret = wok
    /\ wok => (r.W.c = OpenWorld.c /\ r.W.conns = OpenWorld.conns)

\* C12: on an Open channel send_signal makes one write call, of "3\n" for smile,
\* "1\n" for frown and "2\n" for neutral (also when the label differs from these by
\* case or surrounding whitespace), and returns true when the write returns; for
\* any other label (None, '', an unknown word) it returns false, writes nothing and
\* leaves the channel Open.
C12_MappingFidelity ==
    (pc = "send_signal" /\ fn # None) =>
        LET l == Val(fn).label
            wok == Val(fn).wok
            r == Val(out)
        IN  IF l \in {Some(Str_smile), Some(Str_Smile), Some(Str_SMILE)}
            THEN WroteOnce(r, Line("3"), wok)
            ELSE IF l \in {Some(Str_frown), Some(Str_frown_padded)}
            THEN WroteOnce(r, Line("1"), wok)
            ELSE IF l = Some(Str_neutral)
            THEN WroteOnce(r, Line("2"), wok)
            ELSE ~r.ret /\ r.W = OpenWorld

\* send_signal('smile') wrote "3\n" and returned true
C12_Witness ==
    /\ pc = "send_signal" /\ fn # None
    /\ Val(fn).label = Some(Str_smile) /\ Val(fn).wok
    /\ Val(out).ret /\ Val(out).W.writes[1].msg = Line("3")

Min(a, b) == IF a < b THEN a ELSE b

\* The last n elements of a sequence
LastN(seq, n) == SubSeq(seq, Len(seq) - n + 1, Len(seq))

\* The widths and the offsets pushed so far
HistW == [i \in 1..Len(hist) |-> hist[i][1]]
HistC == [i \in 1..Len(hist) |-> hist[i][2]]

\* The window size in effect: a configured size below 1 is treated as 1
Window == IF smooth >= 1 THEN smooth ELSE 1

\* C17: after the k-th push into a smoothing buffer of window size N, the buffer
\* holds exactly the last min(k, N) values pushed into it (the oldest evicted
\* first), so the mean taken over it is the mean of those values: the expression
\* label is the classification of the means of the last min(k, N) widths and of
\* the last min(k, N) offsets, each buffer following its own history only; the
\* gesture average is the integer nearest to the mean of the last min(k, N) counts.
C17_RollingMean ==
    (pc = "push" /\ hist # <<>>) =>
        LET n == Min(Len(hist), Window) IN
        IF pipeline = "expr"
        THEN /\ mouth_buf = LastN(HistW, n)
             /\ corner_buf = LastN(HistC, n)
             /\ out = Some(Classify(LastN(HistW, n), LastN(HistC, n)))
             /\ buffer = <<>>
        ELSE /\ buffer = LastN(hist, n)
             /\ 2 * Val(out) * n - 2 * Sum(LastN(hist, n)) \in (-n)..n
             /\ mouth_buf = <<>> /\ corner_buf = <<>>

\* Three pushes into a detector of window 2: the first pair has been evicted and
\* the two buffers hold different positions' values of their own histories
C17_Witness ==
    /\ pc = "push" /\ pipeline = "expr" /\ smooth = 2
    /\ hist = << <<200, 20>>, <<400, 20>>, <<400, -20>> >>
    /\ mouth_buf = <<400, 400>> /\ corner_buf = <<20, -20>>
    /\ out = Some(Str_neutral)

\* The two conditions of the heuristics for the inputs f of a classification
SmileCond(f) ==
    /\ Sum(f.mbuf) >= f.cfg.smile_thresh * Len(f.mbuf)
    /\ Sum(f.cbuf) < (-(f.cfg.corner_margin)) * Len(f.cbuf)

FrownCond(f) ==
    /\ Sum(f.mbuf) <= f.cfg.frown_thresh * Len(f.mbuf)
    /\ Sum(f.cbuf) > f.cfg.corner_margin * Len(f.cbuf)

\* C18 as stated: for every threshold configuration the label is smile iff the
\* smile condition holds, frown iff the frown condition holds, neutral otherwise.
C18_FrownIffCondition ==
    (pc = "classify" /\ fn # None) =>
        /\ (Val(out) = Str_smile) <=> SmileCond(Val(fn))
        /\ (Val(out) = Str_frown) <=> FrownCond(Val(fn))
        /\ (Val(out) = Str_neutral) <=> (~SmileCond(Val(fn)) /\ ~FrownCond(Val(fn)))

\* C18: for every threshold configuration the label is smile iff smoothed width
\* >= smile_threshold and smoothed offset < -corner_margin; frown iff that does
\* not hold and smoothed width <= frown_threshold and smoothed offset >
\* +corner_margin; neutral otherwise.  When corner_margin >= 0 or smile_threshold >
\* frown_threshold the two conditions exclude each other and frown iff the frown
\* condition.  Width 0.35 with offset +0.02 yields neutral under the defaults.
C18_ConjunctiveThresholds ==
    (pc = "classify" /\ fn # None) =>
        LET f == Val(fn)
            label == Val(out)
        IN  /\ (label = Str_smile) <=> SmileCond(f)
            /\ (label = Str_frown) <=> (~SmileCond(f) /\ FrownCond(f))
            /\ (label = Str_neutral) <=> (~SmileCond(f) /\ ~FrownCond(f))
            /\ (f.cfg.corner_margin >= 0 \/ f.cfg.smile_thresh > f.cfg.frown_thresh)
                  => ((label = Str_frown) <=> FrownCond(f))
            /\ (f.mbuf = <<350>> /\ f.cbuf = <<20>> /\ f.cfg = DefaultThresholds)
                  => label = Str_neutral

\* With a negative margin both conditions hold and the label is smile
C18_Witness ==
    /\ pc = "classify" /\ fn # None
    /\ SmileCond(Val(fn)) /\ FrownCond(Val(fn))
    /\ Val(fn).cfg.corner_margin < 0
    /\ out = Some(Str_smile)

Bit(b) == IF b THEN 1 ELSE 0

\* The four finger decisions on landmarks lm
FourFingers(lm) ==
    Bit(lm[8].y < lm[6].y) + Bit(lm[12].y < lm[10].y)
    + Bit(lm[16].y < lm[14].y) + Bit(lm[20].y < lm[18].y)

\* The thumb decision of the table for the inputs f of a count
ThumbExtended(f) ==
    LET reported == f.handedness_label \notin {None, Some(Str_empty)}
        right == IF reported THEN Val(f.handedness_label) = Str_Right
                 ELSE hand_counter.assume_right_hand
        tip == f.lm[4].x
        joint == f.lm[3].x
    IN  IF right /\ hand_counter.flipped THEN tip < joint
        ELSE IF right THEN tip > joint
        ELSE IF hand_counter.flipped THEN tip > joint
        ELSE tip < joint

\* C19: the thumb adds one to the count exactly when the table says so for the
\* effective hand (the reported handedness, else the configured default) and the
\* mirroring flag; a thumb tip level with its joint never counts.
C19_ThumbRule ==
    (pc = "count" /\ fn # None) =>
        /\ Val(out) - FourFingers(Val(fn).lm) = Bit(ThumbExtended(Val(fn)))
        /\ Val(fn).lm[4].x = Val(fn).lm[3].x => Val(out) = FourFingers(Val(fn).lm)

\* A reported Left hand overrides the default in an unmirrored image: the thumb
\* with tip.x < joint.x is the only finger counted
C19_Witness ==
    /\ pc = "count" /\ fn # None
    /\ hand_counter = [assume_right_hand |-> TRUE, flipped |-> FALSE]
    /\ Val(fn).handedness_label = Some(Str_Left)
    /\ Val(fn).lm[4].x < Val(fn).lm[3].x
    /\ FourFingers(Val(fn).lm) = 0
    /\ out = Some(1)

\* The count is the sum of the five decisions and lies in 0..5
CountIsSum ==
    fn # None =>
        /\ Val(out) = Bit(ThumbExtended(Val(fn))) + FourFingers(Val(fn).lm)
        /\ Val(out) \in 0..5
        /\ (ThumbExtended(Val(fn)) /\ FourFingers(Val(fn).lm) = 4) => Val(out) = 5
        /\ (~ThumbExtended(Val(fn)) /\ FourFingers(Val(fn).lm) = 0) => Val(out) = 0

\* C20: count returns the sum of the thumb decision and the four finger decisions
\* tip.y < joint.y, a value in 0..5 (5 when all hold, 0 when none holds), and a
\* call leaves the counter's fields unchanged.
C20_CountIsSumOfFive ==
    [][ pc = "count" => (CountIsSum' /\ hand_counter' = hand_counter) ]_vars

\* All five decisions true with no handedness reported
C20_Witness ==
    /\ pc = "count" /\ fn # None
    /\ Val(fn).handedness_label = None
    /\ ThumbExtended(Val(fn)) /\ FourFingers(Val(fn).lm) = 4
    /\ out = Some(5)

----------------------------------------------------------------------------
(* The end-to-end scenario: a session of run with a window of 5 frames whose *)
(* faces have width 0.20 and a frown offset in frames 1-5, width 0.40 and a  *)
(* smile offset in frames 6-10; every write succeeds                         *)

ScenarioFrames == 10
ScenarioWindow == 5

ScenarioWidth(k) == IF k <= 5 THEN 200 ELSE 400
FrownOffsets == {20, 100}
SmileOffsets == {-20, -100}
ScenarioOffsets(k) == IF k <= 5 THEN FrownOffsets ELSE SmileOffsets

\* Frame steps + 1 of the scenario
ScenarioFrame ==
    /\ mode = "scenario" /\ pc = "loop" /\ steps < ScenarioFrames
    /\ \E c \in ScenarioOffsets(steps + 1) :
          ExprFrameStep(Some(<<ScenarioWidth(steps + 1), c>>), TRUE)
    /\ UNCHANGED <<config, fnvars, closeCalls, pc, buffer>>

InitScenario ==
    /\ InitCommon
    /\ mode = "scenario"
    /\ pipeline = "expr"
    /\ port = Some(Dev_ACM0)
    /\ noserial = FALSE
    /\ pyserial = TRUE
    /\ smooth = ScenarioWindow
    /\ retriesArg = DefaultRetries
    /\ host = <<Dev_S0, Dev_ACM0>>

NextScenario == Startup \/ ScenarioFrame

SpecScenario == InitScenario /\ [][NextScenario]_vars

\* The detector of the session as input of the two conditions
SessionDetector == [mbuf |-> mouth_buf, cbuf |-> corner_buf, cfg |-> DefaultThresholds]

\* frown < neutral < smile, in the order the scenario visits them
Rank(l) ==
    IF l = None THEN 0
    ELSE IF Val(l) = Str_frown THEN 1
    ELSE IF Val(l) = Str_neutral THEN 2
    ELSE 3

\* The lines written so far
Lines == [i \in 1..Len(writes) |-> writes[i].msg]

\* C21: in the scenario, on an Open channel, the label is frown through frame 5,
\* stays frown as long as the rolling means satisfy the frown condition, is smile
\* exactly when they satisfy the smile condition, never goes back to an earlier
\* label, and a frame writes one line (the new label's) when the label differs
\* from the previous frame's and nothing otherwise; after the last frame the label
\* is smile and the lines written are "1\n", "2\n", "3\n".
C21_ScenarioTransitions ==
    [][ (mode = "scenario" /\ IsOpen /\ steps' = steps + 1) =>
          /\ IsOpen'
          /\ steps' <= 5 => CurOut' = Some(Str_frown)
          /\ (CurOut = Some(Str_frown) /\ FrownCond(SessionDetector)')
                => CurOut' = Some(Str_frown)
          /\ (CurOut = Some(Str_frown) /\ CurOut' # Some(Str_frown))
                => ~FrownCond(SessionDetector)'
          /\ (CurOut' = Some(Str_smile)) <=> SmileCond(SessionDetector)'
          /\ Rank(CurOut') >= Rank(CurOut)
          /\ IF CurOut' # CurOut
             THEN /\ Len(writes') = Len(writes) + 1
                  /\ LastWrite(writes').msg = WireOf(Val(CurOut'))
                  /\ LastWrite(writes').ok
             ELSE writes' = writes
          /\ steps' = ScenarioFrames =>
                (CurOut' = Some(Str_smile) /\ Lines' = <<Line("1"), Line("2"), Line("3")>>)
      ]_vars

\* The scenario has run to its last frame on an Open channel
C21_Witness ==
    /\ mode = "scenario" /\ steps = ScenarioFrames /\ IsOpen
    /\ CurOut = Some(Str_smile) /\ prev = Some(Str_smile)
    /\ Len(writes) = 3 /\ sendCalls = 3

----------------------------------------------------------------------------
(* Two detectors: the one of a session of run, and a second one with the    *)
(* same window and thresholds that is given the session's faces only         *)

\* A frame of the session; the second detector computes on the same face
TwinFrame ==
    /\ mode = "twin" /\ pc = "loop" /\ steps < MaxFrames
    /\ \E face \in {None} \cup {Some(m) : m \in Measurements}, wok \in BOOLEAN :
          /\ ExprFrameStep(face, wok)
          /\ twin' = IF IsNone(face) THEN twin
                     ELSE LET d == Compute(twin.mouth_buf, twin.corner_buf, Val(face), smooth)
                          IN  [mouth_buf |-> d.mouth_buf, corner_buf |-> d.corner_buf,
                               label |-> Some(d.label)]
    /\ UNCHANGED <<config, fn, out, hist, closeCalls, pc, buffer>>

InitTwin ==
    /\ InitCommon
    /\ mode = "twin"
    /\ pipeline = "expr"
    /\ noserial \in BOOLEAN
    /\ pyserial \in BOOLEAN
    /\ smooth \in 0..MaxSmooth
    /\ retriesArg = DefaultRetries
    /\ host = <<Dev_S0, Dev_ACM0>>

NextTwin == Startup \/ TwinFrame

SpecTwin == InitTwin /\ [][NextTwin]_vars

----------------------------------------------------------------------------
(* Properties of the end of a session and of the client's fields *)

\* C23: when a session has ended, no connection created by its client is open.
C23_NoConnectionHeldAtEnd ==
    (mode = "session" /\ pc = "done") => \A i \in 1..Len(conns) : ~conns[i].open

\* C24: whenever a client exists and no method of it is running, _available is
\* true exactly when _ser holds a handle.
C24_AvailableIffHandle ==
    ~IsNone(serial_client) => (Client._available <=> ~IsNone(Client._ser))

\* A write failed and dropped the handle, and a later open() took a new one
C24_Witness ==
    /\ mode = "api" /\ last.op = "open" /\ failed
    /\ Len(conns) = 2 /\ ~conns[1].open /\ conns[2].open
    /\ Client._available /\ Client._ser = Some(2)

====
